---- MODULE Spec2Model ----
(***************************************************************************)
(* Model of register_agent.py: the token cache (get_auth_token), the API   *)
(* client (wazuh_api), the resolver and key functions, add_agent_to_group  *)
(* and the enrollment sequence of __main__.                                *)
(*                                                                         *)
(* A call is atomic in time: it reads the clock once.  Time passes between *)
(* calls (Tick) and in time.sleep.  The remote server and the local        *)
(* binaries are the environment: every answer they can give is drawn from  *)
(* a small set with \E.                                                    *)
(***************************************************************************)
EXTENDS Integers, Sequences, FiniteSets, TLC

VARIABLES
  now,               \* time.time()
  cached_token,      \* global cached_token (line 27)
  token_expiration,  \* global token_expiration (line 28)
  pc,                \* the statement of __main__ about to run
  exc,               \* the exception that ended the process, "none" while it runs
  agent_name,        \* __main__: agent_name
  agent_status,      \* __main__: agent_status
  agent_id,          \* __main__: agent_id
  agent_key,         \* __main__: agent_key
  groups,            \* WAZUH_GROUPS split at ","
  gi,                \* index of the group the for loop of line 384 is at
  tokCall,           \* observation: the last get_auth_token call
  api,               \* observation: the last wazuh_api call
  n,                 \* observation: how often each step of __main__ happened
  loop,              \* observation: the resolutions and sleeps of the polling loop
  first,             \* observation: what the resolution of line 352 returned
  inv,               \* observation: the current add_agent_to_group invocation
  call,              \* observation: the current add_agent_to_group call of line 385
  obs                \* observation: the key stage and the polling loop

vars == <<now, cached_token, token_expiration, pc, exc, agent_name, agent_status,
          agent_id, agent_key, groups, gi, tokCall, api, n, loop, first, inv,
          call, obs>>

mainVars == <<pc, exc, agent_name, agent_status, agent_id, agent_key, groups, gi,
              n, loop, first, inv, call, obs>>

----------------------------------------------------------------------------
(* Bounds of the model *)

MaxTime == 300     \* the clock stops advancing here
MaxItems == 2      \* longest affected_items list the server sends
MaxCount == 4      \* the observation counters saturate here
WaitSeconds == 150 \* the WAZUH_WAIT_TIME the runs of the model are started with

(* Program constants *)

TTL == 300               \* line 49: time.time() + 300
PollWaitDefault == 10    \* line 341: the default of WAZUH_WAIT_TIME
GroupWaitDefault == 30   \* line 183: the default of WAZUH_WAIT_TIME

None == "None"           \* Python's None
NoExc == "none"          \* no exception

Min(a, b) == IF a < b THEN a ELSE b
Inc(c) == Min(c + 1, MaxCount)

SeqsUpTo(S, k) == UNION {[1..m -> S] : m \in 0..k}

----------------------------------------------------------------------------
(* The environment: what the server can answer *)

Tokens == {"tokA", "tokB"}
NodeName == "n1"
AgentIds == {"001", "002"}
AgentKeys == {"keyA", "keyB"}
Statuses == {"active", "pending"}
GroupNames == {"g1", "g2"}
GroupConfigs == {<<"default">>, <<"g1">>, <<"g1", "g2">>}
Methods == {"get", "post", "put", "delete"}

\* requests.status_codes._codes: the codes the table names, written as strings.
\* The server's answers carry one of these; None is not a key of the table.
StatusTable == {"200", "400", "500"}

\* The answer to the login request: HTTP 200 with a token, another status, or
\* an exception of the transport or of response.json().
LoginOutcomes ==
  {[kind |-> "ok", token |-> t] : t \in Tokens}
    \cup {[kind |-> "reject", token |-> None], [kind |-> "exc", token |-> None]}

\* Every login issues a token it has not issued before.  Which string it is
\* does not matter, so the tokens are issued in turn.
FreshToken(tok) == IF tok = "tokA" THEN "tokB" ELSE "tokA"

\* The answers to a login request made while tok is cached.
LoginAnswers(tok) == {l \in LoginOutcomes : l.kind = "ok" => l.token = FreshToken(tok)}

EmptyBody == [empty |-> TRUE]      \* the {} of line 149

\* An application error: HTTP 200 with error # 0, or an HTTP error status.
ErrorAnswers ==
  {[kind |-> "resp", code |-> c, body |-> [error |-> 1]] : c \in StatusTable}
    \cup {[kind |-> "resp", code |-> c, body |-> [error |-> 0]] : c \in StatusTable \ {"200"}}

\* The request raised, or response.json() did.
ExcAnswer == [kind |-> "exc", code |-> None, body |-> EmptyBody]

StatusItems == [name : {NodeName}, status : Statuses, id : AgentIds]
StatusAnswers ==
  {[kind |-> "resp", code |-> "200", body |-> [error |-> 0, items |-> s]] :
      s \in SeqsUpTo(StatusItems, MaxItems)}
    \cup ErrorAnswers \cup {ExcAnswer}

InsertAnswers ==
  {[kind |-> "resp", code |-> "200", body |-> [error |-> 0, id |-> i, key |-> k]] :
      i \in AgentIds, k \in AgentKeys}
    \cup ErrorAnswers \cup {ExcAnswer}

KeyAnswers ==
  {[kind |-> "resp", code |-> "200", body |-> [error |-> 0, items |-> s]] :
      s \in SeqsUpTo([key : AgentKeys], MaxItems)}
    \cup ErrorAnswers \cup {ExcAnswer}

MemberAnswers ==
  {[kind |-> "resp", code |-> "200", body |-> [error |-> 0, items |-> s]] :
      s \in SeqsUpTo([group : SUBSET GroupNames], MaxItems)}
    \cup ErrorAnswers \cup {ExcAnswer}

PutAnswers ==
  {[kind |-> "resp", code |-> "200", body |-> [error |-> 0]]}
    \cup ErrorAnswers \cup {ExcAnswer}

----------------------------------------------------------------------------
(* get_auth_token, lines 30-53 *)

token_valid_inclusive(tok, expiry, t) == tok # None /\ t <= expiry

\* The cache test of line 34.
token_valid(tok, expiry, t) == tok # None /\ t < expiry

\* get_auth_token setting the expiry before it looks at the status of the login.
get_auth_token_expiry_first(tok, expiry, t, login) ==
  IF token_valid(tok, expiry, t)
  THEN [ret |-> tok, raised |-> NoExc, logins |-> 0, login |-> "none",
        cached_token |-> tok, token_expiration |-> expiry]
  ELSE IF login.kind = "ok"
  THEN [ret |-> login.token, raised |-> NoExc, logins |-> 1, login |-> "ok",
        cached_token |-> login.token, token_expiration |-> t + TTL]
  ELSE IF login.kind = "reject"
  THEN [ret |-> None, raised |-> "AuthError", logins |-> 1, login |-> "reject",
        cached_token |-> tok, token_expiration |-> t + TTL]
  ELSE [ret |-> None, raised |-> "RequestException", logins |-> 1, login |-> "exc",
        cached_token |-> tok, token_expiration |-> expiry]

\* The call at time t with the cache (tok, expiry); login is the server's
\* answer to the login request, used only when the request is made.
get_auth_token(tok, expiry, t, login) ==
  IF token_valid(tok, expiry, t)
  THEN [ret |-> tok, raised |-> NoExc, logins |-> 0, login |-> "none",
        cached_token |-> tok, token_expiration |-> expiry]
  ELSE IF login.kind = "ok"
  THEN [ret |-> login.token, raised |-> NoExc, logins |-> 1, login |-> "ok",
        cached_token |-> login.token, token_expiration |-> t + TTL]
  ELSE IF login.kind = "reject"
  THEN [ret |-> None, raised |-> "AuthError", logins |-> 1, login |-> "reject",
        cached_token |-> tok, token_expiration |-> expiry]
  ELSE [ret |-> None, raised |-> "RequestException", logins |-> 1, login |-> "exc",
        cached_token |-> tok, token_expiration |-> expiry]

\* What is observed of a get_auth_token call made after the call observed as
\* prev; issued is the time of the last login that returned HTTP 200.
TokObs(prev, tok, expiry, t, g) ==
  [called |-> TRUE, at |-> t, preTok |-> tok, preExp |-> expiry,
   preIssued |-> prev.issued, issued |-> IF g.login = "ok" THEN t ELSE prev.issued,
   logins |-> g.logins, login |-> g.login, ret |-> g.ret, raised |-> g.raised]

----------------------------------------------------------------------------
(* wazuh_api, lines 113-151 *)

\* The requests function the method selects, lines 126-141.
request_verb(method) ==
  IF method = "post" THEN "post"
  ELSE IF method = "put" THEN "put"
  ELSE IF method = "delete" THEN "delete"
  ELSE "get"

\* wazuh_api with get_auth_token called before the try block.
wazuh_api_token_outside_try(method, resource, tok, expiry, t, login, answer) ==
  LET g == get_auth_token(tok, expiry, t, login) IN
  IF g.raised # NoExc
  THEN [method |-> method, resource |-> resource, g |-> g, sent |-> None,
        caught |-> NoExc, raised |-> g.raised, code |-> None, body |-> EmptyBody]
  ELSE IF answer.kind = "exc"
  THEN [method |-> method, resource |-> resource, g |-> g, sent |-> request_verb(method),
        caught |-> "RequestException", raised |-> NoExc, code |-> None, body |-> EmptyBody]
  ELSE [method |-> method, resource |-> resource, g |-> g, sent |-> request_verb(method),
        caught |-> NoExc, raised |-> NoExc, code |-> answer.code, body |-> answer.body]

\* The call at time t; answer is the server's answer to the request, used only
\* when the request is sent.  caught: the exception the except clause of line
\* 146 handled; raised: the exception that leaves the function.
wazuh_api(method, resource, tok, expiry, t, login, answer) ==
  LET g == get_auth_token(tok, expiry, t, login) IN
  IF g.raised # NoExc
  THEN [method |-> method, resource |-> resource, g |-> g, sent |-> None,
        caught |-> g.raised, raised |-> NoExc, code |-> None, body |-> EmptyBody]
  ELSE IF answer.kind = "exc"
  THEN [method |-> method, resource |-> resource, g |-> g, sent |-> request_verb(method),
        caught |-> "RequestException", raised |-> NoExc, code |-> None, body |-> EmptyBody]
  ELSE [method |-> method, resource |-> resource, g |-> g, sent |-> request_verb(method),
        caught |-> NoExc, raised |-> NoExc, code |-> answer.code, body |-> answer.body]

\* What is observed of a wazuh_api call.
ApiObs(r) ==
  [called |-> TRUE, method |-> r.method, resource |-> r.resource, sent |-> r.sent,
   login |-> r.g.login, caught |-> r.caught, raised |-> r.raised,
   code |-> r.code, empty |-> (r.body = EmptyBody)]

\* code_desc, lines 164-165: the table lookup raises KeyError for a key the
\* table does not hold.
code_desc(http_status_code) ==
  IF http_status_code \in StatusTable THEN "desc" ELSE "KeyError"

\* http_codes_serializer, lines 87-90: the exception it raises, or "none".
http_codes_serializer(response, status_code) ==
  IF code_desc(status_code) = "KeyError" THEN "KeyError" ELSE NoExc

----------------------------------------------------------------------------
(* The resolver and the key functions *)

Raise(e) == [raised |-> e, ret |-> None]
Return(v) == [raised |-> NoExc, ret |-> v]

NoAgent == [name |-> None, status |-> None, id |-> None]

\* The for loop of lines 259-262 from item i on: each item overwrites the three
\* variables.
status_loop_first_wins(items, i, acc) ==
  IF i > Len(items) THEN acc
  ELSE [name |-> items[i].name, status |-> items[i].status, id |-> items[i].id]

RECURSIVE status_loop(_, _, _)
status_loop(items, i, acc) ==
  IF i > Len(items) THEN acc
  ELSE status_loop(items, i + 1,
         [name |-> items[i].name, status |-> items[i].status, id |-> items[i].id])

\* wazuh_agent_status, lines 245-267, on the result r of its wazuh_api call.
wazuh_agent_status(r) ==
  IF r.raised # NoExc THEN Raise(r.raised)
  ELSE IF http_codes_serializer(r.body, r.code) # NoExc
  THEN Raise(http_codes_serializer(r.body, r.code))
  ELSE IF r.code = "200" /\ r.body.error = 0
  THEN Return(status_loop(r.body.items, 1, NoAgent))
  ELSE Return(NoAgent)

\* add_agent, lines 202-243, on the result r of its wazuh_api call: the pair
\* (id, key), or None when the function ends without a return statement.
add_agent(r) ==
  IF r.raised # NoExc THEN Raise(r.raised)
  ELSE IF http_codes_serializer(r.body, r.code) # NoExc
  THEN Raise(http_codes_serializer(r.body, r.code))
  ELSE IF r.code = "400" THEN Return(None)
  ELSE IF r.code = "200" /\ r.body.error = 0
  THEN Return(<<r.body.id, r.body.key>>)
  ELSE Return(None)

\* get_agent_key, lines 309-322, on the result r of its wazuh_api call: the
\* loop of line 315 returns at its first item.
get_agent_key(r) ==
  IF r.raised # NoExc THEN Raise(r.raised)
  ELSE IF http_codes_serializer(r.body, r.code) # NoExc
  THEN Raise(http_codes_serializer(r.body, r.code))
  ELSE IF r.code = "200" /\ r.body.error = 0
  THEN IF Len(r.body.items) > 0 THEN Return(r.body.items[1].key) ELSE Return(None)
  ELSE Return(None)

----------------------------------------------------------------------------
(* The initial state: after line 350, nothing cached, no call made yet *)

NoTokCall ==
  [called |-> FALSE, at |-> 0, preTok |-> None, preExp |-> 0,
   preIssued |-> 0, issued |-> 0, logins |-> 0, login |-> "none", ret |-> None, raised |-> NoExc]

NoApiCall ==
  [called |-> FALSE, method |-> None, resource |-> None, sent |-> None,
   login |-> "none", caught |-> NoExc, raised |-> NoExc,
   code |-> None, empty |-> TRUE]

NoAnswer == [called |-> FALSE, code |-> None, body |-> EmptyBody]
NoLoop == [polls |-> 0, sleeps |-> 0]
NoCall == [puts |-> 0, sleeps |-> 0]
NoInvocation ==
  [agent |-> None, group |-> None, query |-> "none", puts |-> 0, put |-> "none"]

Init ==
  /\ now = 0
  /\ cached_token = None
  /\ token_expiration = 0
  /\ pc = "resolve"
  /\ exc = NoExc
  /\ agent_name = None
  /\ agent_status = None
  /\ agent_id = None
  /\ agent_key = None
  /\ groups \in GroupConfigs
  /\ gi = 1
  /\ tokCall = NoTokCall
  /\ api = NoApiCall
  /\ n = [insert |-> 0, getkey |-> 0, imports |-> 0, restarts |-> 0, listens |-> 0]
  /\ loop = NoLoop
  /\ call = NoCall
  /\ first = [done |-> FALSE, id |-> None, held |-> FALSE]
  /\ inv = NoInvocation
  /\ obs = [keyArg |-> None, activeSeen |-> FALSE, execute |-> None,
            imported |-> None, invoked |-> << >>, acked |-> {}, answer |-> NoAnswer]

----------------------------------------------------------------------------
(* Time *)

TickSteps == {300}          \* a long wait between two calls of the program
ElapseSteps == {149, 150}   \* the waits between two direct calls

TimePasses(steps) ==
  /\ \E d \in steps :
       /\ now + d <= MaxTime
       /\ now' = now + d
  /\ UNCHANGED <<cached_token, token_expiration, tokCall, api>>
  /\ UNCHANGED mainVars

\* Time passes between two calls.
Tick == exc = NoExc /\ pc # "serving" /\ TimePasses(TickSteps)

\* os.environ.get("WAZUH_WAIT_TIME", default=...), lines 183 and 341: the runs
\* of the model set the variable, so both places read the same value and the
\* default is not used.
wait_time(default) == WaitSeconds

\* time.sleep(seconds)
sleep(seconds) == now' = Min(now + seconds, MaxTime)

\* The environment's answers to one wazuh_api call made with the cache as it
\* is: the login answer counts only when a login request is made, the answer to
\* the request only when the request is sent.
NoLogin == [kind |-> "exc", token |-> None]
Answered(login, answer, answers) ==
  /\ login \in LoginAnswers(cached_token)
  /\ answer \in answers
  /\ LET g == get_auth_token(cached_token, token_expiration, now, login) IN
       /\ g.logins = 0 => login = NoLogin
       /\ g.raised # NoExc => answer = ExcAnswer

\* A wazuh_api call of the program: the call's effect on the cache, and the
\* observations of it.
Call(r) ==
  /\ cached_token' = r.g.cached_token
  /\ token_expiration' = r.g.token_expiration
  /\ tokCall' = TokObs(tokCall, cached_token, token_expiration, now, r.g)
  /\ api' = ApiObs(r)

----------------------------------------------------------------------------
(* The token cache and the API client called directly *)

Elapse == TimePasses(ElapseSteps)

CallGetAuthToken ==
  /\ \E login \in LoginAnswers(cached_token) :
       LET g == get_auth_token(cached_token, token_expiration, now, login) IN
       /\ g.logins = 0 => login = NoLogin
       /\ cached_token' = g.cached_token
       /\ token_expiration' = g.token_expiration
       /\ tokCall' = TokObs(tokCall, cached_token, token_expiration, now, g)
  /\ api' = NoApiCall
  /\ UNCHANGED now
  /\ UNCHANGED mainVars

CallWazuhApi ==
  /\ \E method \in Methods, login \in LoginOutcomes, answer \in PutAnswers :
       /\ Answered(login, answer, PutAnswers)
       /\ Call(wazuh_api(method, "resource", cached_token, token_expiration, now,
                         login, answer))
  /\ UNCHANGED now
  /\ UNCHANGED mainVars

ApiNext == Elapse \/ CallGetAuthToken \/ CallWazuhApi

ApiSpec == Init /\ [][ApiNext]_vars

----------------------------------------------------------------------------
(* wazuh_agent_status called directly *)

\* agent_name, agent_status, agent_id = wazuh_agent_status(node_name), with the
\* server's answer to the call kept next to the result.
CallWazuhAgentStatus ==
  /\ exc = NoExc
  /\ \E login \in LoginOutcomes, answer \in StatusAnswers :
       /\ Answered(login, answer, StatusAnswers)
       /\ LET r == wazuh_api("get", "agents?q=name", cached_token, token_expiration,
                             now, login, answer)
              s == wazuh_agent_status(r) IN
          /\ Call(r)
          /\ obs' = [obs EXCEPT !.answer = [called |-> TRUE, code |-> r.code,
                                            body |-> r.body]]
          /\ IF s.raised # NoExc
             THEN /\ exc' = s.raised
                  /\ UNCHANGED <<agent_name, agent_status, agent_id>>
             ELSE /\ agent_name' = s.ret.name
                  /\ agent_status' = s.ret.status
                  /\ agent_id' = s.ret.id
                  /\ UNCHANGED exc
  /\ UNCHANGED <<now, pc, agent_key, groups, gi, n, loop, first, inv, call>>

StatusNext == Elapse \/ CallWazuhAgentStatus

StatusSpec == Init /\ [][StatusNext]_vars

----------------------------------------------------------------------------
(* add_agent_to_group, lines 168-199 *)

\* The membership check without the return of line 180.
membership_check_no_return(r, agent_group) ==
  IF r.raised # NoExc THEN Raise(r.raised)
  ELSE IF http_codes_serializer(r.body, r.code) # NoExc
  THEN Raise(http_codes_serializer(r.body, r.code))
  ELSE IF r.code = "200" /\ r.body.error = 0
  THEN IF Len(r.body.items) = 0 THEN Raise("IndexError") ELSE Return("put")
  ELSE Return("put")

\* Lines 170-180 on the result r of the membership query: "return" when the
\* group is among the groups of the first item, "put" when the function goes
\* on to line 183; items[0] raises IndexError on an empty list.
membership_check(r, agent_group) ==
  IF r.raised # NoExc THEN Raise(r.raised)
  ELSE IF http_codes_serializer(r.body, r.code) # NoExc
  THEN Raise(http_codes_serializer(r.body, r.code))
  ELSE IF r.code = "200" /\ r.body.error = 0
  THEN IF Len(r.body.items) = 0 THEN Raise("IndexError")
       ELSE IF agent_group \in r.body.items[1].group THEN Return("return")
       ELSE Return("put")
  ELSE Return("put")

\* The assignment check without the sleep and the call of lines 198-199.
assignment_check_no_retry(r) ==
  IF r.raised # NoExc THEN Raise(r.raised)
  ELSE IF http_codes_serializer(r.body, r.code) # NoExc
  THEN Raise(http_codes_serializer(r.body, r.code))
  ELSE Return("return")

\* The assignment check with a test of the HTTP status only.
assignment_check_status_only(r) ==
  IF r.raised # NoExc THEN Raise(r.raised)
  ELSE IF http_codes_serializer(r.body, r.code) # NoExc
  THEN Raise(http_codes_serializer(r.body, r.code))
  ELSE IF r.code = "200" THEN Return("return")
  ELSE Return("retry")

\* Lines 184-199 on the result r of the assignment call: "return" on success,
\* "retry" when the function sleeps and calls itself.
assignment_check(r) ==
  IF r.raised # NoExc THEN Raise(r.raised)
  ELSE IF http_codes_serializer(r.body, r.code) # NoExc
  THEN Raise(http_codes_serializer(r.body, r.code))
  ELSE IF r.code = "200" /\ r.body.error = 0 THEN Return("return")
  ELSE Return("retry")

\* How the membership query of an invocation ended, as the server answered it.
QueryObs(r, agent_group) ==
  IF r.code = "200" /\ r.body.error = 0
  THEN IF Len(r.body.items) = 0 THEN "empty"
       ELSE IF agent_group \in r.body.items[1].group THEN "present" ELSE "absent"
  ELSE IF r.code = None THEN "no response"
  ELSE "failed"

\* The groups the server has shown or acknowledged for the agent, after a call
\* for group agent_group returned.
Acked(acked, agent_group, shown) ==
  IF shown THEN acked \cup {agent_group} ELSE acked \ {agent_group}

\* How the assignment call of an invocation ended, as the server answered it.
PutObs(r) ==
  IF r.code = "200" /\ r.body.error = 0 THEN "ok" ELSE "failed"

----------------------------------------------------------------------------
(* __main__, lines 350-388 *)

key_path_inverted(id) == IF id # None THEN "add_agent" ELSE "get_agent_key"

\* Lines 354-359: the branch on the id of the first resolution.
key_path(id) == IF id = None THEN "add_agent" ELSE "get_agent_key"

key_missing_unchecked(key) == FALSE

\* Line 360: if agent_key is None
key_missing(key) == key = None

poll_exit_any_status(status) == status # None

poll_exit_no_record(status) == status = "active" \/ status = None

\* Lines 367-380: the loop ends when the status is "active".
poll_exit(status) == status = "active"

groups_skipped_never(g) == FALSE

\* Line 381: the sentinel that skips the group assignment.
groups_skipped(g) == g = <<"default">>

groups_left_but_last(g, i) == ~groups_skipped(g) /\ i < Len(g)

\* Lines 381-384: the for loop has a group left to handle.
groups_left(g, i) == ~groups_skipped(g) /\ i <= Len(g)

import_result_fatal(return_code) ==
  IF return_code # "0" THEN "RuntimeError" ELSE NoExc

\* Lines 271-276: either return code of manage_agents is only logged.
import_result(return_code) == NoExc

\* Lines 298-307: whether the output holds "Completed." is only logged.
restart_result(restarted) == NoExc

\* The process ends with exception e.
Dies(e) == exc' = e /\ UNCHANGED pc

\* Whether the server holds a record with the node's name when it answers the
\* query of line 256: a list it sends tells, any other answer leaves it open.
RemoteHolds(r) ==
  IF r.code = "200" /\ r.body.error = 0 THEN {Len(r.body.items) > 0} ELSE BOOLEAN

\* Line 352: agent_name, agent_status, agent_id = wazuh_agent_status(node_name)
ResolveInitial ==
  /\ exc = NoExc /\ pc = "resolve"
  /\ \E login \in LoginOutcomes, answer \in StatusAnswers :
       /\ Answered(login, answer, StatusAnswers)
       /\ LET r == wazuh_api("get", "agents?q=name", cached_token, token_expiration,
                             now, login, answer)
              s == wazuh_agent_status(r) IN
          /\ Call(r)
          /\ IF s.raised # NoExc
             THEN /\ Dies(s.raised)
                  /\ UNCHANGED <<agent_name, agent_status, agent_id, first>>
             ELSE /\ agent_name' = s.ret.name
                  /\ agent_status' = s.ret.status
                  /\ agent_id' = s.ret.id
                  /\ \E held \in RemoteHolds(r) :
                       first' = [done |-> TRUE, id |-> s.ret.id, held |-> held]
                  /\ pc' = key_path(s.ret.id)
                  /\ UNCHANGED exc
  /\ UNCHANGED <<now, agent_key, groups, gi, n, loop, inv, call, obs>>

\* Line 355: agent_id, agent_key = add_agent(node_name); unpacking None raises
\* TypeError.
AddAgent ==
  /\ exc = NoExc /\ pc = "add_agent"
  /\ \E login \in LoginOutcomes, answer \in InsertAnswers :
       /\ Answered(login, answer, InsertAnswers)
       /\ LET r == wazuh_api("post", "agents/insert", cached_token, token_expiration,
                             now, login, answer)
              a == add_agent(r) IN
          /\ Call(r)
          /\ IF a.raised # NoExc
             THEN Dies(a.raised) /\ UNCHANGED <<agent_id, agent_key>>
             ELSE IF a.ret = None
             THEN Dies("TypeError") /\ UNCHANGED <<agent_id, agent_key>>
             ELSE /\ agent_id' = a.ret[1]
                  /\ agent_key' = a.ret[2]
                  /\ pc' = "import_key"
                  /\ UNCHANGED exc
  /\ n' = [n EXCEPT !.insert = Inc(@)]
  /\ UNCHANGED <<now, agent_name, agent_status, groups, gi, loop, first, inv, call, obs>>

\* Line 359: agent_key = get_agent_key(agent_id)
GetAgentKey ==
  /\ exc = NoExc /\ pc = "get_agent_key"
  /\ \E login \in LoginOutcomes, answer \in KeyAnswers :
       /\ Answered(login, answer, KeyAnswers)
       /\ LET r == wazuh_api("get", "agents/id/key", cached_token, token_expiration,
                             now, login, answer)
              k == get_agent_key(r) IN
          /\ Call(r)
          /\ IF k.raised # NoExc
             THEN Dies(k.raised) /\ UNCHANGED agent_key
             ELSE /\ agent_key' = k.ret
                  /\ pc' = "import_key"
                  /\ UNCHANGED exc
  /\ n' = [n EXCEPT !.getkey = Inc(@)]
  /\ obs' = [obs EXCEPT !.keyArg = agent_id]
  /\ UNCHANGED <<now, agent_name, agent_status, agent_id, groups, gi, loop, first, inv,
                 call>>

\* Lines 360-362: ValueError without a key, else wazuh_agent_import_key, whose
\* return code is only logged (lines 270-278).
ImportKey ==
  /\ exc = NoExc /\ pc = "import_key"
  /\ IF key_missing(agent_key)
     THEN Dies("ValueError") /\ UNCHANGED <<n, obs>>
     ELSE /\ \E return_code \in {"0", "1"} :
               /\ obs' = [obs EXCEPT !.execute = <<"manage_agents", return_code>>,
                                     !.imported = agent_id]
               /\ IF import_result(return_code) # NoExc
                  THEN Dies(import_result(return_code))
                  ELSE pc' = "restart" /\ UNCHANGED exc
          /\ n' = [n EXCEPT !.imports = Inc(@)]
  /\ UNCHANGED <<now, cached_token, token_expiration, tokCall, api, agent_name,
                 agent_status, agent_id, agent_key, groups, gi, loop, first, inv, call>>

\* Line 363: restart_wazuh_agent, lines 295-307; whether the output holds
\* "Completed." is only logged.
Restart ==
  /\ exc = NoExc /\ pc = "restart"
  /\ \E restarted \in {"Completed.", "no marker"} :
       /\ obs' = [obs EXCEPT !.execute = <<"wazuh-control", restarted>>]
       /\ IF restart_result(restarted) # NoExc
          THEN Dies(restart_result(restarted))
          ELSE pc' = "poll" /\ UNCHANGED exc
  /\ n' = [n EXCEPT !.restarts = Inc(@)]
  /\ UNCHANGED <<now, cached_token, token_expiration, tokCall, api, agent_name,
                 agent_status, agent_id, agent_key, groups, gi, loop, first, inv, call>>

\* Lines 365-379: one resolution of the polling loop.
Poll ==
  /\ exc = NoExc /\ pc = "poll"
  /\ \E login \in LoginOutcomes, answer \in StatusAnswers :
       /\ Answered(login, answer, StatusAnswers)
       /\ LET r == wazuh_api("get", "agents?q=name", cached_token, token_expiration,
                             now, login, answer)
              s == wazuh_agent_status(r) IN
          /\ Call(r)
          /\ IF s.raised # NoExc
             THEN /\ Dies(s.raised)
                  /\ UNCHANGED <<agent_name, agent_status, agent_id, obs>>
             ELSE /\ agent_name' = s.ret.name
                  /\ agent_status' = s.ret.status
                  /\ agent_id' = s.ret.id
                  /\ obs' = [obs EXCEPT !.activeSeen = @ \/ s.ret.status = "active"]
                  /\ pc' = IF poll_exit(s.ret.status) THEN "groups" ELSE "poll_sleep"
                  /\ UNCHANGED exc
  /\ loop' = [loop EXCEPT !.polls = Inc(@)]
  /\ UNCHANGED <<now, agent_key, groups, gi, n, first, inv, call>>

\* Line 380: time.sleep(int(wait_time))
PollSleep ==
  /\ exc = NoExc /\ pc = "poll_sleep"
  /\ sleep(wait_time(PollWaitDefault))
  /\ loop' = [loop EXCEPT !.sleeps = Inc(@)]
  /\ pc' = "poll"
  /\ UNCHANGED <<cached_token, token_expiration, tokCall, api, exc, agent_name,
                 agent_status, agent_id, agent_key, groups, gi, n, first, inv, call, obs>>

\* Lines 381-385: the next group of the list, or line 386 when there is none.
\* What was observed of the external processes and of the polling loop is
\* dropped here.
GroupLoop ==
  /\ exc = NoExc /\ pc = "groups"
  /\ IF groups_left(groups, gi)
     THEN /\ pc' = "group_query"
          /\ inv' = [NoInvocation EXCEPT !.agent = agent_id, !.group = groups[gi]]
          /\ call' = NoCall
          /\ obs' = [obs EXCEPT !.invoked = Append(@, groups[gi]), !.execute = None]
     ELSE /\ pc' = "serve"
          /\ obs' = [obs EXCEPT !.execute = None]
          /\ UNCHANGED <<inv, call>>
  /\ loop' = NoLoop
  /\ UNCHANGED <<now, cached_token, token_expiration, tokCall, api, exc, agent_name,
                 agent_status, agent_id, agent_key, groups, gi, n, first>>

\* Lines 170-180: the membership query of add_agent_to_group(agent_id, groups[gi]).
GroupQuery ==
  /\ exc = NoExc /\ pc = "group_query"
  /\ \E login \in LoginOutcomes, answer \in MemberAnswers :
       /\ Answered(login, answer, MemberAnswers)
       /\ LET r == wazuh_api("get", "agents?agents_list", cached_token,
                             token_expiration, now, login, answer)
              m == membership_check(r, groups[gi]) IN
          /\ Call(r)
          /\ inv' = [inv EXCEPT !.query = QueryObs(r, groups[gi])]
          /\ IF m.raised # NoExc
             THEN Dies(m.raised) /\ UNCHANGED <<gi, obs>>
             ELSE IF m.ret = "return"
             THEN /\ pc' = "groups" /\ gi' = gi + 1 /\ UNCHANGED exc
                  /\ obs' = [obs EXCEPT !.acked = Acked(@, groups[gi],
                                           QueryObs(r, groups[gi]) = "present")]
             ELSE pc' = "group_put" /\ UNCHANGED <<gi, exc, obs>>
  /\ UNCHANGED <<now, agent_name, agent_status, agent_id, agent_key, groups, n, loop,
                 first, call>>

\* Lines 183-196: the assignment call.
GroupPut ==
  /\ exc = NoExc /\ pc = "group_put"
  /\ \E login \in LoginOutcomes, answer \in PutAnswers :
       /\ Answered(login, answer, PutAnswers)
       /\ LET r == wazuh_api("put", "agents/id/group/name", cached_token,
                             token_expiration, now, login, answer)
              a == assignment_check(r) IN
          /\ Call(r)
          /\ inv' = [inv EXCEPT !.puts = Inc(@), !.put = PutObs(r)]
          /\ IF a.raised # NoExc
             THEN Dies(a.raised) /\ UNCHANGED <<gi, obs>>
             ELSE IF a.ret = "return"
             THEN /\ pc' = "groups" /\ gi' = gi + 1 /\ UNCHANGED exc
                  /\ obs' = [obs EXCEPT !.acked = Acked(@, groups[gi],
                                                        PutObs(r) = "ok")]
             ELSE pc' = "group_sleep" /\ UNCHANGED <<gi, exc, obs>>
  /\ call' = [call EXCEPT !.puts = Inc(@)]
  /\ UNCHANGED <<now, agent_name, agent_status, agent_id, agent_key, groups, n, loop,
                 first>>

\* Lines 197-199: time.sleep(int(wait_time)), then the function calls itself.
GroupSleep ==
  /\ exc = NoExc /\ pc = "group_sleep"
  /\ sleep(wait_time(GroupWaitDefault))
  /\ call' = [call EXCEPT !.sleeps = Inc(@)]
  /\ inv' = [NoInvocation EXCEPT !.agent = inv.agent, !.group = inv.group]
  /\ pc' = "group_query"
  /\ UNCHANGED <<cached_token, token_expiration, tokCall, api, exc, agent_name,
                 agent_status, agent_id, agent_key, groups, gi, n, loop, first, obs>>

\* Lines 386-388: the health listener starts and serves for ever.
Serve ==
  /\ exc = NoExc /\ pc = "serve"
  /\ n' = [n EXCEPT !.listens = Inc(@)]
  /\ pc' = "serving"
  /\ UNCHANGED <<now, cached_token, token_expiration, tokCall, api, exc, agent_name,
                 agent_status, agent_id, agent_key, groups, gi, loop, first, inv, call,
                 obs>>

Next ==
  \/ Tick
  \/ ResolveInitial
  \/ AddAgent
  \/ GetAgentKey
  \/ ImportKey
  \/ Restart
  \/ Poll
  \/ PollSleep
  \/ GroupLoop
  \/ GroupQuery
  \/ GroupPut
  \/ GroupSleep
  \/ Serve

Spec == Init /\ [][Next]_vars

----------------------------------------------------------------------------
(* The claims *)

\* C1: after a login at time t0 that returned HTTP 200, a get_auth_token call
\* at a time t < t0 + 300 returns the cached token, makes no login request and
\* leaves the cache as it is; a call at t >= t0 + 300 makes exactly one login
\* request and, when that returns HTTP 200, the cache holds the new token and
\* the expiry t + 300.
C1_TokenCache ==
  tokCall.called /\ tokCall.preTok # None =>
    /\ tokCall.preExp = tokCall.preIssued + TTL
    /\ tokCall.at < tokCall.preIssued + TTL =>
         /\ tokCall.logins = 0
         /\ tokCall.ret = tokCall.preTok
         /\ cached_token = tokCall.preTok
         /\ token_expiration = tokCall.preExp
    /\ tokCall.at >= tokCall.preIssued + TTL =>
         /\ tokCall.logins = 1
         /\ tokCall.login = "ok" =>
              /\ tokCall.ret # tokCall.preTok
              /\ cached_token = tokCall.ret
              /\ token_expiration = tokCall.at + TTL

\* A call exactly 300 seconds after the login renewed the token with one login.
C1_Witness ==
  /\ tokCall.called /\ tokCall.preTok # None
  /\ tokCall.at = tokCall.preIssued + TTL
  /\ tokCall.login = "ok" /\ tokCall.logins = 1
  /\ cached_token = tokCall.ret

\* C2: wazuh_api raises nothing to its caller: an exception raised while the
\* token is obtained, the request is sent or the body is parsed gives the
\* result (None, {}), for every method.
C2_ApiNeverRaises ==
  api.called =>
    /\ api.raised = NoExc
    /\ tokCall.raised # NoExc => api.caught = tokCall.raised
    /\ api.caught # NoExc => api.code = None /\ api.empty

\* A delete call whose login was refused returned (None, {}).
C2_Witness ==
  /\ api.called /\ api.method = "delete"
  /\ tokCall.raised = "AuthError" /\ api.caught = "AuthError"
  /\ api.code = None /\ api.empty /\ api.raised = NoExc

\* C3, as claimed: a login that returns a non-200 status ends the process with
\* the authentication error raised by get_auth_token.
C3_AuthErrorEndsProcess ==
  api.called /\ api.login = "reject" => exc = "AuthError"

\* C3, amended: a login that returns a non-200 status is caught inside the
\* wazuh_api call that made the login, which returns (None, {}); the
\* authentication error never leaves wazuh_api and never ends the process.
C3_AuthErrorCaught ==
  /\ exc # "AuthError"
  /\ api.called /\ api.login = "reject" =>
       /\ api.caught = "AuthError" /\ api.raised = NoExc
       /\ api.code = None /\ api.empty

\* The login of the first API call of the run was refused.
C3_Witness ==
  /\ api.called /\ api.login = "reject" /\ api.caught = "AuthError"
  /\ pc = "resolve" /\ ~first.done

\* C4, as claimed: an API result with status None never ends the process.
C4_TransportFailureNotFatal ==
  api.called /\ api.code = None => exc = NoExc

\* C5, as claimed: a run that ends in the key stage without a key, because the
\* insert was rejected with HTTP 400 or because the key fetch for the existing
\* id failed, ends with ValueError.
C5_NoKeyIsValueError ==
  (/\ exc # NoExc
   /\ \/ pc = "add_agent" /\ api.code = "400"
      \/ pc \in {"get_agent_key", "import_key"} /\ api.code # None)
    => exc = "ValueError"

\* C6: while no key was obtained, none of the later steps has happened: no key
\* import, no restart, no polling, no group assignment, no health listener.
C6_NoKeyNoLaterStep ==
  agent_key = None =>
    /\ pc \in {"resolve", "add_agent", "get_agent_key", "import_key"}
    /\ n.imports = 0 /\ n.restarts = 0 /\ n.listens = 0
    /\ loop = NoLoop /\ call = NoCall /\ inv = NoInvocation
    /\ obs.execute = None /\ ~obs.activeSeen

\* The insert was rejected with HTTP 400 and the run ended there.
C6_Witness ==
  /\ exc # NoExc /\ pc = "add_agent" /\ api.code = "400"
  /\ agent_key = None /\ n.insert = 1 /\ n.imports = 0

\* C7: when the first resolution returned an id, no insert call is made and
\* get_agent_key is called exactly once, with that id; when it returned no id,
\* the insert call is made exactly once and get_agent_key is never called.
C7_CreateOrReuse ==
  /\ ~first.done => n.insert = 0 /\ n.getkey = 0
  /\ first.done /\ first.id # None =>
       /\ n.insert = 0
       /\ n.getkey = (IF pc = "get_agent_key" /\ exc = NoExc THEN 0 ELSE 1)
       /\ n.getkey = 1 => obs.keyArg = first.id
  /\ first.done /\ first.id = None =>
       /\ n.getkey = 0
       /\ n.insert = (IF pc = "add_agent" /\ exc = NoExc THEN 0 ELSE 1)

\* A run that found its agent reached the serving phase with one key fetch.
C7_Witness ==
  /\ pc = "serving" /\ first.done /\ first.id # None
  /\ n.getkey = 1 /\ n.insert = 0 /\ obs.keyArg = first.id

\* C8: the polling loop ends at the first resolution whose status is "active":
\* inside the loop no "active" was seen, k sleeps go with k (before a
\* resolution) or k + 1 (after it) resolutions, the loop is left with status
\* "active" after k + 1 resolutions and k sleeps, and nothing of the group
\* assignment or the health listener happens before "active" was seen.
C8_PollingExit ==
  /\ pc = "poll" /\ exc = NoExc =>
       ~obs.activeSeen /\ loop.polls = loop.sleeps
  /\ pc = "poll_sleep" =>
       /\ ~obs.activeSeen /\ agent_status # "active"
       /\ loop.polls < MaxCount => loop.polls = loop.sleeps + 1
  /\ pc = "groups" /\ loop # NoLoop =>
       /\ agent_status = "active"
       /\ loop.polls < MaxCount => loop.polls = loop.sleeps + 1
  /\ pc \in {"groups", "group_query", "group_put", "group_sleep", "serve", "serving"}
       => obs.activeSeen
  /\ (n.listens > 0 \/ call # NoCall \/ inv # NoInvocation) => obs.activeSeen

\* The statuses were pending, pending, active: three resolutions, two sleeps.
C8_Witness ==
  /\ pc = "groups" /\ agent_status = "active"
  /\ loop.polls = 3 /\ loop.sleeps = 2

\* C9: no count limits the polling loop: a resolution the server answered
\* (any status but "active", or an application error) is followed by the
\* sleep and the sleep by the next resolution, whatever number of resolutions
\* came before, and a resolution that returns "active" leaves the loop.
C9_PollingUnbounded ==
  [][/\ (pc = "poll" /\ exc = NoExc /\ pc' # "poll" )=>
          /\ exc' = NoExc
          /\ pc' = (IF agent_status' = "active" THEN "groups" ELSE "poll_sleep")
     /\ (pc = "poll" /\ exc = NoExc /\ exc' # NoExc) => api'.code = None
     /\ (pc = "poll_sleep" /\ pc' # "poll_sleep") => pc' = "poll" /\ exc' = NoExc
    ]_vars

\* More resolutions than the counters count ended in application errors, and
\* the loop sleeps before the next one.
C9_Witness ==
  /\ pc = "poll_sleep" /\ exc = NoExc
  /\ loop.sleeps = MaxCount /\ loop.polls = MaxCount
  /\ api.code = "500" /\ agent_status = None

\* C10: an add_agent_to_group invocation whose membership query shows the
\* group present makes no assignment call; one whose query shows it absent and
\* whose assignment succeeds makes exactly one.
C10_GroupPrecheck ==
  /\ inv.query = "present" => inv.puts = 0 /\ inv.put = "none"
  /\ inv.query = "absent" /\ inv.put = "ok" => inv.puts = 1
  /\ inv.puts <= 1

\* The group was absent, and one assignment call added it.
C10_Witness ==
  /\ pc = "groups" /\ gi = 2
  /\ inv.query = "absent" /\ inv.put = "ok" /\ inv.puts = 1

\* C11: in a call of add_agent_to_group, an assignment call the server answers
\* without success is followed by one wait and a retry; when the server
\* answered k assignment calls without success and then one with success, the
\* call made k + 1 assignment calls and k waits, and the insert, the key import
\* and the restart of the run each still happened at most once.
C11_GroupRetry ==
  /\ (pc \in {"group_query", "group_put"} /\ exc = NoExc) => call.puts = call.sleeps
  /\ (inv.put = "failed" /\ exc = NoExc) =>
       /\ pc = "group_sleep"
       /\ call.puts < MaxCount => call.puts = call.sleeps + 1
  /\ inv.put = "ok" =>
       /\ exc = NoExc /\ pc # "group_sleep"
       /\ call.puts < MaxCount => call.puts = call.sleeps + 1
  /\ call # NoCall =>
       n.insert <= 1 /\ n.insert + n.getkey = 1 /\ n.imports = 1 /\ n.restarts = 1

\* Two assignment calls failed and the third succeeded: two waits.
C11_Witness ==
  /\ pc = "groups" /\ inv.put = "ok"
  /\ call.puts = 3 /\ call.sleeps = 2
  /\ n.insert = 1 /\ n.imports = 1 /\ n.restarts = 1

\* C12: when the configured group list is exactly "default", no membership
\* query and no assignment call is ever made; otherwise add_agent_to_group is
\* called once for each group of the list, in list order, and a call has
\* returned before the next one starts.
C12_GroupLoop ==
  /\ groups = <<"default">> =>
       /\ obs.invoked = << >> /\ inv = NoInvocation /\ call = NoCall
       /\ pc \notin {"group_query", "group_put", "group_sleep"}
       /\ api.resource \notin {"agents?agents_list", "agents/id/group/name"}
  /\ groups # <<"default">> =>
       /\ obs.invoked = SubSeq(groups, 1, Len(obs.invoked))
       /\ pc \in {"group_query", "group_put", "group_sleep"} =>
            Len(obs.invoked) = gi /\ inv.group = groups[gi]
       /\ pc = "groups" => Len(obs.invoked) = gi - 1
       /\ pc \in {"serve", "serving"} => obs.invoked = groups
       /\ pc \notin {"groups", "group_query", "group_put", "group_sleep", "serve",
                     "serving"} => obs.invoked = << >>

\* Both calls of a two-group list were made and returned.
C12_Witness ==
  /\ pc = "serving" /\ groups = <<"g1", "g2">>
  /\ obs.invoked = <<"g1", "g2">> /\ inv.group = "g2"

\* C13: a failure of an external process is never fatal: once a key was
\* obtained, the key import is followed by the restart whether its return code
\* is zero or not, and the restart is followed by the polling loop whether its
\* output holds "Completed." or not.
C13_ProcessFailureNotFatal ==
  /\ obs.execute # None /\ obs.execute[1] = "manage_agents" =>
       /\ agent_key # None /\ n.imports = 1 /\ n.restarts = 0
       /\ pc = "restart" /\ exc = NoExc
  /\ obs.execute # None /\ obs.execute[1] = "wazuh-control" =>
       /\ n.imports = 1 /\ n.restarts = 1
       /\ pc \notin {"resolve", "add_agent", "get_agent_key", "import_key", "restart"}
       /\ exc # NoExc => api.called /\ api.resource \notin {"agents/insert", "agents/id/key"}
       /\ (pc = "poll" /\ loop.polls = 0) => exc = NoExc

\* The restart printed no "Completed." and the polling loop has resolved the
\* status twice since.
C13_Witness ==
  /\ obs.execute # None
  /\ obs.execute[1] = "wazuh-control" /\ obs.execute[2] = "no marker"
  /\ pc = "poll_sleep" /\ loop.polls = 2 /\ exc = NoExc

\* C14: the steps of a run are ordered: the key is imported at most once, and
\* exactly once in a run that reaches serving; the restart happens only after
\* the import, polling only after the restart, a call of add_agent_to_group only
\* after the polling loop has ended with the status "active", and the listener
\* starts only after all of these and after the call for every configured
\* group has returned.
C14_StepOrder ==
  /\ n.imports <= 1 /\ n.restarts <= 1 /\ n.listens <= 1
  /\ n.restarts > 0 => n.imports = 1
  /\ (loop.polls > 0 \/ pc = "poll_sleep" \/ obs.activeSeen) => n.restarts = 1
  /\ (obs.invoked # << >> \/ inv # NoInvocation
        \/ pc \in {"group_query", "group_put", "group_sleep"}) =>
       /\ obs.activeSeen /\ agent_status = "active"
       /\ loop = NoLoop
  /\ (n.listens > 0) <=> (pc = "serving")
  /\ pc \in {"serve", "serving"} =>
       /\ n.imports = 1 /\ n.restarts = 1 /\ obs.activeSeen
       /\ groups # <<"default">> => obs.invoked = groups /\ gi = Len(groups) + 1

\* A run with two groups that serves, after a retry of the last assignment.
C14_Witness ==
  /\ pc = "serving" /\ n.listens = 1 /\ n.imports = 1 /\ n.restarts = 1
  /\ Len(groups) = 2 /\ gi = 3 /\ call.sleeps = 1

\* C15: a login that returns a status other than 200 leaves the token cache as
\* it was, the token and the expiry both, and get_auth_token raises; the cache
\* still fails the test of the next get_auth_token call, which therefore makes
\* a login request of its own.
C15_FailedLoginKeepsCache ==
  tokCall.login = "reject" =>
    /\ tokCall.logins = 1 /\ tokCall.ret = None /\ tokCall.raised = "AuthError"
    /\ cached_token = tokCall.preTok
    /\ token_expiration = tokCall.preExp
    /\ cached_token = None \/ now >= token_expiration

\* The refresh of an expired token was rejected: the cache keeps the old token
\* and its old expiry.
C15_Witness ==
  /\ tokCall.login = "reject" /\ tokCall.preTok # None
  /\ cached_token = tokCall.preTok /\ token_expiration = tokCall.preExp
  /\ tokCall.at >= tokCall.preExp

\* C16: when the server answers HTTP 200 with error 0, wazuh_agent_status
\* returns the name, status and id of the last record of the list, for every
\* list of one or more records, and three nulls for the empty list; when the
\* server answers another HTTP status or error # 0, it returns three nulls.
C16_StatusResolution ==
  (obs.answer.called /\ exc = NoExc) =>
    LET code == obs.answer.code
        body == obs.answer.body
        ret == [name |-> agent_name, status |-> agent_status, id |-> agent_id]
    IN IF code = "200" /\ body.error = 0
       THEN IF Len(body.items) = 0 THEN ret = NoAgent
            ELSE LET last == body.items[Len(body.items)] IN
                 /\ agent_name = last.name
                 /\ agent_status = last.status
                 /\ agent_id = last.id
       ELSE ret = NoAgent

\* A list of two records that differ in status and id: the second is returned.
C16_Witness ==
  /\ obs.answer.called /\ exc = NoExc
  /\ obs.answer.code = "200" /\ obs.answer.body.error = 0
  /\ Len(obs.answer.body.items) = 2
  /\ obs.answer.body.items[1].id # obs.answer.body.items[2].id
  /\ obs.answer.body.items[1].status # obs.answer.body.items[2].status
  /\ agent_id = obs.answer.body.items[2].id
  /\ agent_status = obs.answer.body.items[2].status

\* C17: the insert call is made only when the server holds no record with the
\* node's name; a failed first status query for a name the server holds never
\* leads to an insert.
C17_InsertOnlyWhenAbsent ==
  n.insert > 0 => ~first.held

\* C18: the agent id passed to add_agent_to_group is the id of the agent whose
\* key was imported in this run, whatever the server answered to the status
\* queries of the polling loop.
C18_GroupIdIsImportedId ==
  inv.group # None => inv.agent = obs.imported

\* C19 as stated: an assignment call is made only after the membership query of
\* the same invocation succeeded and showed the group absent.
C19_PutOnlyAfterAbsent ==
  (inv.puts > 0 \/ pc = "group_put") => inv.query = "absent"

\* C19: an assignment call is made only after the membership query of the same
\* invocation was answered and did not show the group present: the query
\* succeeded and showed the group absent, or it failed with an HTTP error
\* status or error # 0, and then the assignment call is made all the same. A
\* query that showed the group present, that got an empty list or that got no
\* response is never followed by an assignment call.
C19_PutAfterQuery ==
  /\ (inv.puts > 0 \/ pc = "group_put") => inv.query \in {"absent", "failed"}
  /\ (pc = "group_put" /\ exc = NoExc) =>
       /\ api.resource = "agents?agents_list" /\ api.code \in StatusTable
       /\ inv.query = "failed" => inv.puts = 0
  /\ inv.query \in {"present", "empty", "no response"} =>
       inv.puts = 0 /\ pc # "group_put"
  /\ inv.query = "empty" => exc = "IndexError"
  /\ inv.query = "no response" => exc = "KeyError"

\* The membership query failed and the assignment call that followed it was
\* acknowledged.
C19_Witness ==
  /\ inv.query = "failed" /\ inv.puts = 1 /\ inv.put = "ok"
  /\ api.resource = "agents/id/group/name" /\ api.code = "200"

\* C20: when the listener is serving and the group list is not "default", the
\* server has, for each configured group, either shown the group in a
\* successful membership query or acknowledged an assignment call for it with
\* HTTP 200 and error 0; the same holds for every group whose call returned.
C20_GroupsAcknowledged ==
  groups # <<"default">> =>
    /\ pc \in {"groups", "serve", "serving"} =>
         \A i \in 1..(gi - 1) : groups[i] \in obs.acked
    /\ pc \in {"serve", "serving"} =>
         \A i \in 1..Len(groups) : groups[i] \in obs.acked

\* Serving with two groups, each shown or acknowledged by the server, the
\* second by an assignment call.
C20_Witness ==
  /\ pc = "serving" /\ groups = <<"g1", "g2">> /\ obs.acked = {"g1", "g2"}
  /\ inv.group = "g2" /\ inv.put = "ok"

====
